---- MODULE Spec2Model ----
(***************************************************************************)
(* Change-request lifecycle of the master data utility (mdu).              *)
(*                                                                         *)
(* The Django views run without transaction.atomic / select_for_update,    *)
(* so every handler is a read of the rows it needs (with all of its        *)
(* checks) followed later by its UPDATE / INSERT / DELETE statements.      *)
(* Each handler is therefore a "Begin" action (load + checks, which either *)
(* answers at once or leaves the write pending in req) and one action per  *)
(* database statement it issues afterwards.  Statements of different       *)
(* requests interleave freely.                                             *)
(***************************************************************************)
EXTENDS Integers, Sequences, FiniteSets, Bags, TLC

VARIABLES hdr, cr, req, last

vars == <<hdr, cr, req, last>>

----------------------------------------------------------------------------
(* Bounds *)

MaxLock == 3      \* cap on lock_version
MaxStamp == 2     \* cap on the timestamps written into one column of one row
MaxBulk == 1      \* cap on bulk_add_count

Tabs == {"tab1", "tab2"}    \* browser tabs: one request in flight per tab
CRIds == {1, 2}   \* primary keys of the change requests ever created

Makers == {"m1", "m2"}
Approvers == {"a1", "a2"}
Users == Makers \cup Approvers

NoCR == 0         \* NULL foreign key to a ChangeRequest
Null == -1        \* Python None / SQL NULL of the version column
NoStamp == 0      \* NULL DateTimeField; k > 0 is the k-th timezone.now() written there

----------------------------------------------------------------------------
(* Payload: the parsed {"rows": [...]} document.  A row keeps the keys the  *)
(* code reads; an absent key and "" are the same to every `r.get(k) or ""`. *)

Slots == {"string_01", "string_02"}

Row(rt, op, upd, s1, s2) ==
    [row_type |-> rt, operation |-> op, update_rowid |-> upd, rowid |-> "",
     string_01 |-> s1, string_02 |-> s2]

\* str.strip() on the strings of the model
Strip(s) ==
    CASE s = " " -> ""
      [] s = "  " -> ""
      [] s = " US " -> "US"
      [] s = "US " -> "US"
      [] s = " ok " -> "ok"
      [] s = " CA " -> "CA"
      [] s = " zz " -> "zz"
      [] s = " STRING_02 " -> "STRING_02"
      [] OTHER -> s

\* str.upper() on the strings of the model
Upper(s) ==
    CASE s = "update row" -> "UPDATE ROW"
      [] s = "insert row" -> "INSERT ROW"
      [] s = "build new" -> "BUILD NEW"
      [] s = "delete" -> "DELETE"
      [] OTHER -> s

\* str.lower() on the row_type strings of the model
Lower(s) ==
    CASE s = "HEADER" -> "header"
      [] s = "VALUES" -> "values"
      [] s = "Values" -> "values"
      [] OTHER -> s

\* _current_baseline_for_header's fallback document
FallbackPayload == << Row("header", "BUILD NEW", "", "BUS_FIELD_01", "BUS_FIELD_02") >>

PLegacy == << Row("header", "REPLACE", "", "Code", ""),
              Row("values", "DELETE", "bogus", "US", "zz") >>

\* what a POST of the editor carries: the payload text and the metadata fields
PostedForms == {[payload |-> FallbackPayload, meta |-> "reason A"],
                [payload |-> PLegacy, meta |-> "reason B"]}

----------------------------------------------------------------------------
(* Sequence helpers *)

\* [f(x) for x in s], concatenated (each f(x) is a sequence)
FlatMap(F(_), s) ==
    LET acc[i \in 0..Len(s)] == IF i = 0 THEN <<>> ELSE acc[i - 1] \o F(s[i])
    IN acc[Len(s)]

SeqMap(F(_), s) == [i \in 1..Len(s) |-> F(s[i])]

Range(s) == {s[i] : i \in 1..Len(s)}

----------------------------------------------------------------------------
(* validators.py *)

IsHeaderRow(r) == Lower(r.row_type) = "header"
IsValuesRow(r) == Lower(r.row_type) = "values"

\* md5("|".join(trimmed slots)); the digest is modelled by the joined text
\* it is computed from, i.e. md5 is taken to be collision free.
RowHash(r) == Strip(r.string_01) \o "|" \o Strip(r.string_02)

ALLOWED_VALUE_OPS == {"INSERT ROW", "UPDATE ROW", "KEEP ROW", "RETIRE ROW", "UNRETIRE ROW"}

LEGACY_OPS == {"INSERT", "UPDATE", "KEEP", "RETAIN", "DELETE", "REMOVE",
               "UNDELETE", "UNRETIRE", "RETIRE", "REPLACE"}

OpError(vr) ==
    LET op == Upper(Strip(vr.operation))
    IN IF op = "" THEN << "op_missing" >>
       ELSE IF op \in LEGACY_OPS /\ op \notin ALLOWED_VALUE_OPS THEN << "op_unsupported" >>
       ELSE IF op \notin ALLOWED_VALUE_OPS THEN << "op_invalid" >>
       ELSE << >>

DefinedCols(hrow) == {c \in Slots : Strip(hrow[c]) # ""}

UndefinedColError(hrow, vr) ==
    IF \E c \in Slots : Strip(vr[c]) # "" /\ c \notin DefinedCols(hrow)
    THEN << "undefined_cols" >> ELSE << >>

\* validate_change_request_payload(header=h, change_request with payload p):
\* the list of errors, one tag per message
validate_change_request_payload(h, p) ==
    LET header_rows == SelectSeq(p, IsHeaderRow)
        value_rows == SelectSeq(p, IsValuesRow)
        hrow == header_rows[1]
        opErrs == FlatMap(OpError, value_rows)
        idErrs == IF \E i \in 1..Len(p) : p[i].rowid # "" THEN << "rowid" >> ELSE << >>
        e1 == opErrs \o idErrs
        UndefErr(vr) == UndefinedColError(hrow, vr)
    IN IF Len(p) = 0 THEN << "no_rows" >>
       ELSE IF Len(header_rows) = 0 THEN << "missing_header" >>
       ELSE IF Len(header_rows) > 1 THEN << "multi_header" >>
       ELSE IF h.last_approved_change = NoCR
               /\ Upper(Strip(hrow.operation)) \notin {"BUILD NEW", "BUILD_NEW", "NEW", "CREATE"}
            THEN e1 \o << "build_new" >>
       ELSE IF DefinedCols(hrow) = {} THEN e1 \o << "no_labels" >>
       ELSE e1 \o FlatMap(UndefErr, value_rows)

UPDATE_TARGET_OPS == {"UPDATE", "UPDATE ROW", "UPDATE ROWS", "UPDATE ROW(S)",
                      "RETIRE ROW", "UNRETIRE ROW", "DELETE"}

\* validate_update_rowids_against_latest(header=h, change_request with
\* payload p); latest is the payload of h.last_approved_change.  (The views
\* never store an empty payload_json, so "latest has no payload_json" is
\* the same as "h has no last_approved_change".)
validate_update_rowids_against_latest(h, latest, p) ==
    LET approved_ids == {RowHash(latest[i]) : i \in {j \in 1..Len(latest) : IsValuesRow(latest[j])}}
        value_rows == SelectSeq(p, IsValuesRow)
        TargetErr(r) ==
            IF Upper(Strip(r.operation)) \in UPDATE_TARGET_OPS
            THEN IF Strip(r.update_rowid) = "" THEN << "rowid_required" >>
                 ELSE IF Strip(r.update_rowid) \notin approved_ids THEN << "rowid_unknown" >>
                 ELSE << >>
            ELSE << >>
    IN IF h.last_approved_change = NoCR THEN << >>
       ELSE IF approved_ids = {} THEN << >>
       ELSE FlatMap(TargetErr, value_rows)

TARGETS_EXISTING_ROW == {"UPDATE", "UPDATE ROW", "UPDATE ROWS", "UPDATE ROW(S)", "REPLACE",
                         "RETIRE ROW", "DELETE", "UNRETIRE ROW", "UNRETIRE"}

\* validate_update_rowids_against_latest_hash(header=h, change_request with
\* payload p); latest as above
validate_update_rowids_against_latest_hash(h, latest, p) ==
    LET latest_values == SelectSeq(latest, IsValuesRow)
        approved_hashes == {RowHash(latest_values[i]) : i \in 1..Len(latest_values)}
        value_rows == SelectSeq(p, IsValuesRow)
        TargetErr(r) ==
            IF Upper(Strip(r.operation)) \in TARGETS_EXISTING_ROW
            THEN IF Strip(r.update_rowid) = "" THEN << "rowid_required" >>
                 ELSE IF Strip(r.update_rowid) \notin approved_hashes THEN << "rowid_unknown" >>
                 ELSE << >>
            ELSE << >>
    IN IF h.last_approved_change = NoCR THEN << >>
       ELSE IF Len(latest_values) = 0 THEN << >>
       ELSE FlatMap(TargetErr, value_rows)

----------------------------------------------------------------------------
(* views.py: payload normalisation done by the editor *)

_normalize_operation(op) ==
    LET s == Upper(Strip(op))
    IN CASE s = "INSERT" -> "INSERT ROW"
         [] s = "UPDATE" -> "UPDATE ROW"
         [] s \in {"DELETE", "REMOVE"} -> "RETIRE ROW"
         [] s \in {"RETAIN", ""} -> "KEEP ROW"
         [] s \in ALLOWED_VALUE_OPS -> s
         [] OTHER -> "KEEP ROW"

NormRow(r) ==
    IF Lower(Strip(r.row_type)) = "values"
    THEN [r EXCEPT !.operation = _normalize_operation(r.operation)]
    ELSE r

_normalize_payload_operations(p) == SeqMap(NormRow, p)

NotSkip(r) == r.operation # "SKIP"

\* _apply_cell_edits_to_payload_json for a POST that carries the payload
\* text and no cell__/op__/update_rowid__ keys: the document is re-dumped
\* and the rows marked SKIP are dropped.
_apply_cell_edits_to_payload_json(p) == SelectSeq(p, NotSkip)

\* json.dumps(obj, sort_keys=True, separators=(",", ":")) of one row: the
\* values in key order
CanonicalRow(r) ==
    r.operation \o "," \o r.row_type \o "," \o r.rowid \o "," \o r.string_01
        \o "," \o r.string_02 \o "," \o r.update_rowid

\* _normalized_payload_fingerprint: md5 of the canonical dump of the parsed
\* document.  The digest is modelled by the text it is computed from, i.e.
\* md5 is taken to be collision free.
_normalized_payload_fingerprint(p) ==
    LET acc[i \in 0..Len(p)] ==
            IF i = 0 THEN "[" ELSE acc[i - 1] \o "{" \o CanonicalRow(p[i]) \o "}"
    IN acc[Len(p)] \o "]"

----------------------------------------------------------------------------
(* Stored rows *)

\* a ChangeRequest primary key that was never used / whose row was deleted
NoRow(st) ==
    [status |-> st, lock_version |-> 0, draft_uuid |-> NoCR,
     collaboration_mode |-> "", version |-> Null, payload |-> << >>, meta |-> "",
     submitted_at |-> NoStamp, decided_at |-> NoStamp, decided_by_sid |-> "",
     decision_note |-> "", created_by |-> "", contributors |-> {},
     bulk_add_count |-> 0, override_retired_flag |-> "N"]

Exists(c) == cr[c].status \notin {"NONE", "DELETED"}

\* the AutoField: primary keys are handed out in order and never reused
NextId == 1 + Cardinality({c \in CRIds : cr[c].status # "NONE"})

\* a request in flight: what it is (op), the statement it will run next (pc)
\* and the values it holds for that statement; user is request.user.
Idle ==
    [op |-> "idle", pc |-> "idle", user |-> "", pk |-> NoCR, lock |-> 0,
     presented |-> 0, payload |-> << >>, meta |-> "", mode |-> "", version |-> Null,
     uuid |-> NoCR, decision |-> "", note |-> "", hstatus |-> "", hlac |-> NoCR,
     bulk |-> 0]

\* req is the bag of the requests in flight (those with a statement left to run)
InFlight == BagToSet(req)
CanBegin == BagCardinality(req) < Cardinality(Tabs)
Begin(q) == req (+) SetToBag({q})
End(q) == req (-) SetToBag({q})
Step(q, q2) == (req (-) SetToBag({q})) (+) SetToBag({q2})

\* the response of the step just taken
Answer(o, res) == IF res = "pending" THEN res ELSE o \o ":" \o res

\* int((raw or "").strip() or "0") with every failure mapped to 0
ParseLock(raw) == IF raw.kind = "num" THEN raw.n ELSE 0

LockInputs ==
    {[kind |-> "missing", n |-> 0], [kind |-> "text", n |-> 0]}
        \cup {[kind |-> "num", n |-> k] : k \in 1..(MaxLock + 1)}

\* uniq_submitted_cr_per_header_single_owner on a candidate table t
ConstraintOk(t) ==
    \A c1, c2 \in CRIds :
        (/\ c1 # c2
         /\ t[c1].status = "SUBMITTED" /\ t[c1].collaboration_mode = "SINGLE_OWNER"
         /\ t[c2].status = "SUBMITTED" /\ t[c2].collaboration_mode = "SINGLE_OWNER")
        => FALSE

\* _current_baseline_for_header
BaselinePayload == IF hdr.last_approved_change # NoCR
                   THEN cr[hdr.last_approved_change].payload ELSE FallbackPayload

BaselineVersion == IF hdr.last_approved_change # NoCR
                   THEN cr[hdr.last_approved_change].version ELSE Null

\* the alignment test of proposed_change_edit (same test in the draft picker)
Aligned(row) ==
    IF row.version # Null /\ BaselineVersion # Null
    THEN row.version = BaselineVersion
    ELSE _normalized_payload_fingerprint(row.payload)
            = _normalized_payload_fingerprint(BaselinePayload)

\* header_create has made the reference; no change request exists yet
Init ==
    /\ hdr \in {[status |-> st, collaboration_mode |-> m, last_approved_change |-> NoCR] :
                    st \in {"IN_REVIEW", "RETIRED"}, m \in {"SINGLE_OWNER", "COLLABORATIVE"}}
    /\ cr = [c \in CRIds |-> NoRow("NONE")]
    /\ req = EmptyBag
    /\ last = "init"

----------------------------------------------------------------------------
(* propose_change: POST of the editor's "save draft" *)

PendingCreates == BagCardinality([q \in {x \in InFlight : x.op = "create"} |-> req[q]])

\* the guard as it would read if it looked at the mode stamped on the
\* submitted change request instead of the reference's mode
ProposeCheckSnapshotMode ==
    IF \E c \in CRIds : cr[c].status = "SUBMITTED" /\ cr[c].collaboration_mode = "SINGLE_OWNER"
    THEN "redirect_existing" ELSE "pending"

\* the guard at the top of propose_change, before any GET or POST handling
ProposeCheck ==
    IF hdr.collaboration_mode = "SINGLE_OWNER" /\ \E c \in CRIds : cr[c].status = "SUBMITTED"
    THEN "redirect_existing" ELSE "pending"

ProposeBegin(u, payload, meta) ==
    /\ CanBegin
    /\ NextId + PendingCreates \in CRIds
    /\ IF ProposeCheck = "redirect_existing"
       THEN /\ last' = Answer("create", "redirect_existing")
            /\ UNCHANGED req
       ELSE /\ req' = Begin(
                        [Idle EXCEPT !.op = "create", !.pc = "write", !.user = u,
                                     !.payload = _apply_cell_edits_to_payload_json(payload),
                                     !.meta = meta,
                                     !.mode = hdr.collaboration_mode,
                                     !.version = BaselineVersion])
            /\ last' = Answer("create", "pending")
    /\ UNCHANGED <<hdr, cr>>

ProposeInsert(q) ==
    /\ q \in InFlight /\ q.op = "create" /\ q.pc = "write"
    /\ cr' = [cr EXCEPT ![NextId] =
                [NoRow("DRAFT") EXCEPT !.lock_version = 1, !.draft_uuid = NextId,
                                       !.collaboration_mode = q.mode,
                                       !.version = q.version,
                                       !.payload = q.payload,
                                       !.meta = q.meta,
                                       !.created_by = q.user]]
    /\ req' = End(q)
    /\ last' = Answer("create", "created")
    /\ UNCHANGED hdr

----------------------------------------------------------------------------
(* proposed_change_edit: POST of the editor's "save draft" *)

CanEdit(u, row) ==
    IF hdr.collaboration_mode = "COLLABORATIVE"
    THEN row.created_by = u \/ u \in row.contributors
    ELSE row.created_by = u

\* the checks of proposed_change_edit, in the order the view makes them
SaveCheck(u, row, raw) ==
    IF ~CanEdit(u, row) THEN "not_permitted"
    ELSE IF row.status # "DRAFT" THEN "not_draft"
    ELSE IF ~Aligned(row) THEN "stale"
    ELSE IF ParseLock(raw) # row.lock_version THEN "lock_mismatch"
    ELSE "pending"

SaveBegin(u, c, raw, payload, meta) ==
    /\ CanBegin
    /\ Exists(c)
    /\ LET row == cr[c]
           res == SaveCheck(u, row, raw)
       IN /\ last' = Answer("save", res)
          /\ IF res = "pending"
             THEN /\ row.lock_version < MaxLock
                  /\ req' = Begin(
                        [Idle EXCEPT !.op = "save", !.pc = "write", !.pk = c,
                                     !.user = u,
                                     !.lock = row.lock_version,
                                     !.presented = ParseLock(raw),
                                     !.payload = _normalize_payload_operations(
                                                    _apply_cell_edits_to_payload_json(payload)),
                                     !.meta = meta,
                                     !.mode = hdr.collaboration_mode,
                                     !.version = row.version])
             ELSE UNCHANGED req
    /\ UNCHANGED <<hdr, cr>>

\* ch2.save(update_fields=[...]): UPDATE ... WHERE id = pk
SaveRow(row, q) ==
    [row EXCEPT !.payload = q.payload, !.meta = q.meta, !.version = q.version,
                !.collaboration_mode = q.mode, !.lock_version = q.lock + 1]

\* the write as it would read without the contributors.add that follows it
SaveWriteSkipsContributor(q) ==
    /\ q \in InFlight /\ q.op = "save" /\ q.pc = "write"
    /\ LET c == q.pk
           t == [cr EXCEPT ![c] = SaveRow(cr[c], q)]
       IN IF ~Exists(c)
          THEN /\ last' = Answer("save", "db_error")
               /\ req' = End(q)
               /\ UNCHANGED cr
          ELSE IF ~ConstraintOk(t)
          THEN /\ last' = Answer("save", "integrity_error")
               /\ req' = End(q)
               /\ UNCHANGED cr
          ELSE /\ cr' = t
               /\ last' = Answer("save", "saved")
               /\ req' = End(q)
    /\ UNCHANGED hdr

SaveWrite(q) ==
    /\ q \in InFlight /\ q.op = "save" /\ q.pc = "write"
    /\ LET c == q.pk
           t == [cr EXCEPT ![c] = SaveRow(cr[c], q)]
       IN IF ~Exists(c)
          THEN /\ last' = Answer("save", "db_error")
               /\ req' = End(q)
               /\ UNCHANGED cr
          ELSE IF ~ConstraintOk(t)
          THEN /\ last' = Answer("save", "integrity_error")
               /\ req' = End(q)
               /\ UNCHANGED cr
          ELSE /\ cr' = t
               /\ last' = Answer("save", "saved")
               /\ req' = IF q.mode = "COLLABORATIVE"
                         THEN Step(q, [q EXCEPT !.pc = "add_contrib"]) ELSE End(q)
    /\ UNCHANGED hdr

\* ch2.contributors.add(request.user)
SaveAddContributor(q) ==
    /\ q \in InFlight /\ q.op = "save" /\ q.pc = "add_contrib"
    /\ LET c == q.pk
       IN IF Exists(c)
          THEN /\ cr' = [cr EXCEPT ![c].contributors = @ \cup {q.user}]
               /\ last' = Answer("save", "contributor_added")
          ELSE /\ UNCHANGED cr
               /\ last' = Answer("save", "db_error")
    /\ req' = End(q)
    /\ UNCHANGED hdr

----------------------------------------------------------------------------
(* proposed_change_submit *)

UuidInputs == CRIds \cup {NoCR}    \* NoCR: no draft_uuid posted

\* the checks as they would read with the lock_version comparison left out
SubmitCheckNoLock(row, uuid, raw) ==
    IF row.status = "SUBMITTED"
    THEN (IF uuid # NoCR /\ row.draft_uuid = uuid THEN "already_submitted" ELSE "not_found")
    ELSE IF row.status # "DRAFT" THEN "not_found"
    ELSE IF uuid = NoCR \/ row.draft_uuid # uuid THEN "uuid_mismatch"
    ELSE "pending"

\* the checks as they would read with the draft_uuid comparison accepting a
\* missing token
SubmitCheckNoToken(row, uuid, raw) ==
    IF row.status = "SUBMITTED"
    THEN (IF uuid # NoCR /\ row.draft_uuid = uuid THEN "already_submitted" ELSE "not_found")
    ELSE IF row.status # "DRAFT" THEN "not_found"
    ELSE IF uuid # NoCR /\ row.draft_uuid # uuid THEN "uuid_mismatch"
    ELSE IF ParseLock(raw) # row.lock_version THEN "lock_mismatch"
    ELSE "pending"

\* the checks as they would read with the lock_version comparison made
\* before the test for an already submitted request
SubmitCheckLockFirst(row, uuid, raw) ==
    IF ParseLock(raw) # row.lock_version THEN "lock_mismatch"
    ELSE IF row.status = "SUBMITTED"
    THEN (IF uuid # NoCR /\ row.draft_uuid = uuid THEN "already_submitted" ELSE "not_found")
    ELSE IF row.status # "DRAFT" THEN "not_found"
    ELSE IF uuid = NoCR \/ row.draft_uuid # uuid THEN "uuid_mismatch"
    ELSE "pending"

\* the checks of proposed_change_submit, in the order the view makes them
SubmitCheck(row, uuid, raw) ==
    IF row.status = "SUBMITTED"
    THEN (IF uuid # NoCR /\ row.draft_uuid = uuid THEN "already_submitted" ELSE "not_found")
    ELSE IF row.status # "DRAFT" THEN "not_found"
    ELSE IF uuid = NoCR \/ row.draft_uuid # uuid THEN "uuid_mismatch"
    ELSE IF ParseLock(raw) # row.lock_version THEN "lock_mismatch"
    ELSE "pending"

\* (any member of group maker may call it: the view never reads request.user)
SubmitBegin(c, uuid, raw) ==
    /\ CanBegin
    /\ Exists(c)
    /\ LET row == cr[c]
           res == SubmitCheck(row, uuid, raw)
       IN /\ last' = Answer("submit", res)
          /\ IF res = "pending"
             THEN /\ row.lock_version < MaxLock
                  /\ req' = Begin(
                        [Idle EXCEPT !.op = "submit", !.pc = "write", !.pk = c,
                                     !.uuid = uuid,
                                     !.lock = row.lock_version,
                                     !.presented = ParseLock(raw)])
             ELSE UNCHANGED req
    /\ UNCHANGED <<hdr, cr>>

\* ch.save(update_fields=["status", "submitted_at", "tracking_id", "lock_version", "updated_at"])
SubmitRow(row, q) ==
    [row EXCEPT !.status = "SUBMITTED", !.submitted_at = @ + 1, !.lock_version = q.lock + 1]

SubmitWrite(q) ==
    /\ q \in InFlight /\ q.op = "submit" /\ q.pc = "write"
    /\ cr[q.pk].submitted_at < MaxStamp
    /\ LET c == q.pk
           t == [cr EXCEPT ![c] = SubmitRow(cr[c], q)]
       IN IF ~Exists(c)
          THEN /\ last' = Answer("submit", "db_error")
               /\ UNCHANGED cr
          ELSE IF ~ConstraintOk(t)
          THEN /\ last' = Answer("submit", "integrity_error")
               /\ UNCHANGED cr
          ELSE /\ cr' = t
               /\ last' = Answer("submit", "submitted")
    /\ req' = End(q)
    /\ UNCHANGED hdr

----------------------------------------------------------------------------
(* proposed_change_decide *)

NoteInputs == {"", "  ", " ok "}

\* the check as it would read without the .strip() of the posted note
DecideCheckNoStrip(row, note) ==
    IF row.status # "SUBMITTED" THEN "not_found"
    ELSE IF note = "" THEN "note_required"
    ELSE "pending"

\* the checks made before anything is written
DecideCheck(row, note) ==
    IF row.status # "SUBMITTED" THEN "not_found"
    ELSE IF Strip(note) = "" THEN "note_required"
    ELSE "pending"

DecideBegin(u, c, decision, note) ==
    /\ CanBegin
    /\ Exists(c)
    /\ LET row == cr[c]
           res == DecideCheck(row, note)
       IN /\ last' = Answer("decide", res)
          /\ IF res = "pending"
             THEN req' = Begin(
                        [Idle EXCEPT !.op = "decide", !.pc = "write", !.user = u, !.pk = c,
                                     !.decision = decision, !.note = Strip(note)])
             ELSE UNCHANGED req
    /\ UNCHANGED <<hdr, cr>>

\* ch.save(update_fields=["status","decided_at","decision_note","decided_by_sid","updated_at"])
DecideRow(row, q) ==
    [row EXCEPT !.status = IF q.decision = "approve" THEN "APPROVED" ELSE "REJECTED",
                !.decided_at = @ + 1, !.decision_note = q.note, !.decided_by_sid = q.user]

\* the write as it would read if a rejection also put the reference back
\* under review
DecideWriteTouchesReference(q) ==
    /\ q \in InFlight /\ q.op = "decide" /\ q.pc = "write"
    /\ cr[q.pk].decided_at < MaxStamp
    /\ LET c == q.pk
       IN IF ~Exists(c)
          THEN /\ last' = Answer("decide", "db_error")
               /\ req' = End(q)
               /\ UNCHANGED <<cr, hdr>>
          ELSE /\ cr' = [cr EXCEPT ![c] = DecideRow(cr[c], q)]
               /\ IF q.decision = "approve"
                  THEN /\ last' = Answer("decide", "approved")
                       /\ req' = Step(q, [q EXCEPT !.pc = "write_header"])
                       /\ UNCHANGED hdr
                  ELSE /\ last' = Answer("decide", "rejected")
                       /\ req' = End(q)
                       /\ hdr' = [hdr EXCEPT !.status = "IN_REVIEW"]

DecideWrite(q) ==
    /\ q \in InFlight /\ q.op = "decide" /\ q.pc = "write"
    /\ cr[q.pk].decided_at < MaxStamp
    /\ LET c == q.pk
       IN IF ~Exists(c)
          THEN /\ last' = Answer("decide", "db_error")
               /\ req' = End(q)
               /\ UNCHANGED cr
          ELSE /\ cr' = [cr EXCEPT ![c] = DecideRow(cr[c], q)]
               /\ IF q.decision = "approve"
                  THEN /\ last' = Answer("decide", "approved")
                       /\ req' = Step(q, [q EXCEPT !.pc = "write_header"])
                  ELSE /\ last' = Answer("decide", "rejected")
                       /\ req' = End(q)
    /\ UNCHANGED hdr

\* header.save(update_fields=["last_approved_change","status","updated_at"])
DecideWriteHeader(q) ==
    /\ q \in InFlight /\ q.op = "decide" /\ q.pc = "write_header"
    /\ LET c == q.pk
       IN IF Exists(c)
          THEN /\ hdr' = [hdr EXCEPT !.last_approved_change = c, !.status = "ACTIVE"]
               /\ last' = Answer("decide", "baseline_set")
          ELSE /\ UNCHANGED hdr
               /\ last' = Answer("decide", "integrity_error")
    /\ req' = End(q)
    /\ UNCHANGED cr

----------------------------------------------------------------------------
(* proposed_change_discard *)

DiscardBegin(u, c) ==
    /\ CanBegin
    /\ Exists(c)
    /\ LET row == cr[c]
           res == IF row.status # "DRAFT" THEN "not_draft"
                  ELSE IF u \in Makers /\ u \notin Approvers /\ row.created_by # u
                       THEN "not_owner"
                  ELSE "pending"
       IN /\ last' = Answer("discard", res)
          /\ IF res = "pending"
             THEN req' = Begin(
                        [Idle EXCEPT !.op = "discard", !.pc = "write", !.user = u,
                                     !.pk = c])
             ELSE UNCHANGED req
    /\ UNCHANGED <<hdr, cr>>

\* ch.delete(): DELETE ... WHERE id = pk, with on_delete=SET_NULL for
\* MDUHeader.last_approved_change
DiscardDelete(q) ==
    /\ q \in InFlight /\ q.op = "discard" /\ q.pc = "write"
    /\ LET c == q.pk
       IN /\ cr' = [cr EXCEPT ![c] = IF Exists(c) THEN NoRow("DELETED") ELSE @]
          /\ hdr' = IF hdr.last_approved_change = c
                    THEN [hdr EXCEPT !.last_approved_change = NoCR] ELSE hdr
          /\ last' = Answer("discard", "discarded")
    /\ req' = End(q)

----------------------------------------------------------------------------
(* propose_change: the draft picker, and draft_bulk_delete *)

\* drafts_qs: the drafts of the reference the picker offers to request.user
drafts_qs(u) ==
    {c \in CRIds :
        /\ cr[c].status = "DRAFT"
        /\ \/ cr[c].created_by = u
           \/ hdr.collaboration_mode = "COLLABORATIVE" /\ u \in cr[c].contributors}

\* action=discard_draft (draft_id) and action=discard_and_create_new
\* (stale_draft_id): drafts_qs.filter(id=...).first(), then .delete()
PickerDiscardBegin(u, c) ==
    /\ CanBegin
    /\ u \in Makers
    /\ LET res == IF ProposeCheck = "redirect_existing" THEN "redirect_existing"
                  ELSE IF c \notin drafts_qs(u) THEN "not_found"
                  ELSE "pending"
       IN /\ last' = Answer("picker", res)
          /\ IF res = "pending"
             THEN req' = Begin(
                        [Idle EXCEPT !.op = "discard", !.pc = "write", !.user = u,
                                     !.pk = c])
             ELSE UNCHANGED req
    /\ UNCHANGED <<hdr, cr>>

\* action=discard_replace_aligned: aligned_draft is the first aligned draft of
\* drafts_qs in the order of updated_at, which is not kept here: any aligned
\* draft of drafts_qs may be the most recently updated one
PickerDiscardAlignedBegin(u) ==
    /\ CanBegin
    /\ u \in Makers
    /\ ProposeCheck # "redirect_existing"
    /\ \E c \in drafts_qs(u) :
          /\ Aligned(cr[c])
          /\ req' = Begin(
                     [Idle EXCEPT !.op = "discard", !.pc = "write", !.user = u,
                                  !.pk = c])
    /\ last' = Answer("picker", "pending")
    /\ UNCHANGED <<hdr, cr>>

\* draft_bulk_delete with draft_ids = [c]: the queryset, the alignment test and
\* then d.delete()
draft_bulk_delete(u, c) ==
    /\ CanBegin
    /\ u \in Makers
    /\ LET res == IF ~(cr[c].status = "DRAFT" /\ cr[c].created_by = u) THEN "none_deleted"
                  ELSE IF Aligned(cr[c]) THEN "none_deleted"
                  ELSE "pending"
       IN /\ last' = Answer("bulk_delete", res)
          /\ IF res = "pending"
             THEN req' = Begin(
                        [Idle EXCEPT !.op = "discard", !.pc = "write", !.user = u,
                                     !.pk = c])
             ELSE UNCHANGED req
    /\ UNCHANGED <<hdr, cr>>

----------------------------------------------------------------------------
(* management/commands/load_demo.py: the shared draft of a collaborative
   reference *)

\* _payload_demo_product_mapping, cut to one values row
DemoPayload == << Row("header", "BUILD NEW", "", "Code", "Name"),
                 Row("values", "BUILD NEW", "", "US", "zz") >>

\* mk_change(..., DRAFT, creator=maker1, ...) followed by
\* contributors.add(maker2)
LoadDemoSharedDraft ==
    /\ req = EmptyBag
    /\ NextId = 1
    /\ hdr.collaboration_mode = "COLLABORATIVE"
    /\ cr' = [cr EXCEPT ![NextId] =
                [NoRow("DRAFT") EXCEPT !.lock_version = 1, !.draft_uuid = NextId,
                                       !.collaboration_mode = hdr.collaboration_mode,
                                       !.version = BaselineVersion,
                                       !.payload = DemoPayload,
                                       !.meta = "Demo change for UX testing",
                                       !.created_by = "m1",
                                       !.contributors = {"m2"}]]
    /\ last' = "load_demo:seeded"
    /\ UNCHANGED <<hdr, req>>

----------------------------------------------------------------------------
(* views_bulk.py: bulk_upload_csv (the view carries no login or group check) *)

\* _HEADER_RE = ^(string_\d{2})\b, ignoring case, on the stripped column
\* header; the match lower-cased, "" when the header does not match
CsvHeaderToTech(h) ==
    LET t == Strip(h)
    IN CASE t = "string_01" -> "string_01"
         [] t = "string_01 (Code)" -> "string_01"
         [] t = "STRING_02" -> "string_02"
         [] t = "string_02" -> "string_02"
         [] t = "string_03" -> "string_03"
         [] OTHER -> ""

\* an uploaded file: its header line and its data lines (cells by position)
CsvFile == [fieldnames |-> << "string_01 (Code)", " STRING_02 " >>,
            rows |-> << << "", " " >>, << " CA ", "x" >> >>]

\* _normalize_csv_headers: the technical names found in the file, in file order
TechInFile(csv) ==
    LET OneTech(h) == IF CsvHeaderToTech(h) = "" THEN << >> ELSE << CsvHeaderToTech(h) >>
    IN FlatMap(OneTech, csv.fieldnames)

\* _visible_cols_from_payload
_visible_cols_from_payload(p) ==
    LET hs == SelectSeq(p, IsHeaderRow)
    IN IF Len(hs) = 0 THEN {} ELSE DefinedCols(hs[1])

\* the cell of data line `line` for slot c.  display_to_tech is keyed by the
\* stripped header and the line (a DictReader row) by the header as written:
\* the first key resolving to c is looked up in the line, and a header that
\* is written with surrounding blanks finds nothing there.
CsvCell(csv, line, c) ==
    LET n == Len(csv.fieldnames)
        hits == {i \in 1..n : CsvHeaderToTech(csv.fieldnames[i]) = c}
        first == CHOOSE i \in hits : \A j \in hits : i <= j
        display_h == Strip(csv.fieldnames[first])
        cols == {j \in 1..n : csv.fieldnames[j] = display_h}
    IN IF hits = {} \/ cols = {} THEN ""
       ELSE Strip(line[CHOOSE j \in cols : \A k \in cols : k <= j])

\* the rows bulk_upload_csv appends for the lines that are not blank in
\* every visible column
BulkRows(csv, visible) ==
    LET NewRow(line) ==
            [row_type |-> "values", operation |-> "INSERT", update_rowid |-> "", rowid |-> "",
             string_01 |-> IF "string_01" \in visible THEN CsvCell(csv, line, "string_01") ELSE "",
             string_02 |-> IF "string_02" \in visible THEN CsvCell(csv, line, "string_02") ELSE ""]
        Keep(line) == IF \A c \in visible : NewRow(line)[c] = "" THEN << >> ELSE << NewRow(line) >>
    IN FlatMap(Keep, csv.rows)

\* (u is whoever sends the request: the view is routed without login_required
\* or group_required and never reads request.user)
BulkBegin(u, c, csv) ==
    /\ CanBegin
    /\ Exists(c)
    /\ LET row == cr[c]
           visible == _visible_cols_from_payload(row.payload)
           tech == TechInFile(csv)
           added == BulkRows(csv, visible)
           res == IF row.status # "DRAFT" THEN "not_draft"
                  ELSE IF visible = {} THEN "no_visible_cols"
                  ELSE IF \E i \in 1..Len(tech) : tech[i] \notin visible THEN "blocked"
                  ELSE IF \A i \in 1..Len(tech) : tech[i] \notin visible THEN "no_overlap"
                  ELSE IF Len(added) = 0 THEN "nothing_added"
                  ELSE "pending"
       IN /\ last' = Answer("bulk", res)
          /\ IF res = "pending"
             THEN /\ row.bulk_add_count < MaxBulk
                  /\ req' = Begin(
                        [Idle EXCEPT !.op = "bulk", !.pc = "write", !.pk = c, !.user = u,
                                     !.payload = row.payload \o added,
                                     !.bulk = row.bulk_add_count + 1])
             ELSE UNCHANGED req
    /\ UNCHANGED <<hdr, cr>>

\* ch.save(update_fields=["payload_json", "bulk_add_count", "updated_at"])
BulkWrite(q) ==
    /\ q \in InFlight /\ q.op = "bulk" /\ q.pc = "write"
    /\ LET c == q.pk
       IN IF Exists(c)
          THEN /\ cr' = [cr EXCEPT ![c].payload = q.payload, ![c].bulk_add_count = q.bulk]
               /\ last' = Answer("bulk", "uploaded")
          ELSE /\ UNCHANGED cr
               /\ last' = Answer("bulk", "db_error")
    /\ req' = End(q)
    /\ UNCHANGED hdr

CsvInputs == {CsvFile}

----------------------------------------------------------------------------
(* header_edit: HeaderForm(request.POST, instance=header).save() *)

HeaderStatusInputs == {"IN_REVIEW", "RETIRED"}
CollaborationModes == {"SINGLE_OWNER", "COLLABORATIVE"}

HeaderEditBegin(u, mode, status) ==
    /\ CanBegin
    /\ req' = Begin(
                [Idle EXCEPT !.op = "header_edit", !.pc = "write",
                             !.mode = mode, !.hstatus = status,
                             !.hlac = hdr.last_approved_change])
    /\ last' = Answer("header_edit", "pending")
    /\ UNCHANGED <<hdr, cr>>

\* form.save() writes every column of the instance loaded by the request
HeaderEditWrite(q) ==
    /\ q \in InFlight /\ q.op = "header_edit" /\ q.pc = "write"
    /\ IF q.hlac # NoCR /\ ~Exists(q.hlac)
       THEN /\ UNCHANGED hdr
            /\ last' = Answer("header_edit", "integrity_error")
       ELSE /\ hdr' = [status |-> q.hstatus, collaboration_mode |-> q.mode,
                       last_approved_change |-> q.hlac]
            /\ last' = Answer("header_edit", "header_saved")
    /\ req' = End(q)
    /\ UNCHANGED cr

----------------------------------------------------------------------------
(* Specifications *)

\* Spec: one draft and the requests of two browser tabs, their statements
\* interleaved.  The reference was set up by header_create with either
\* collaboration mode and is not edited afterwards.
OneDraft == NextId + PendingCreates = 1

Next ==
    \/ \E u \in Makers, f \in PostedForms : OneDraft /\ ProposeBegin(u, f.payload, f.meta)
    \/ \E q \in InFlight : ProposeInsert(q)
    \/ \E u \in Makers, c \in CRIds, raw \in LockInputs, f \in PostedForms :
          SaveBegin(u, c, raw, f.payload, f.meta)
    \/ \E q \in InFlight : SaveWrite(q)
    \/ \E q \in InFlight : SaveAddContributor(q)
    \/ \E c \in CRIds, uuid \in UuidInputs, raw \in LockInputs :
          SubmitBegin(c, uuid, raw)
    \/ \E q \in InFlight : SubmitWrite(q)
    \/ \E u \in Approvers, c \in CRIds, d \in {"approve", "reject"}, n \in NoteInputs :
          DecideBegin(u, c, d, n)
    \/ \E q \in InFlight : DecideWrite(q)
    \/ \E q \in InFlight : DecideWriteHeader(q)
    \/ \E u \in Users, c \in CRIds : DiscardBegin(u, c)
    \/ \E q \in InFlight : DiscardDelete(q)
    \/ \E u \in Users, c \in CRIds, csv \in CsvInputs : BulkBegin(u, c, csv)
    \/ \E q \in InFlight : BulkWrite(q)

Spec == Init /\ [][Next]_vars

\* SpecRef: two drafts and edits of the reference, one request at a time
\* (every handler runs to its end before the next request is served).
Quiet == req = EmptyBag

FormA == [payload |-> FallbackPayload, meta |-> "reason A"]

NextRef ==
    \/ \E u \in Makers : Quiet /\ ProposeBegin(u, FormA.payload, FormA.meta)
    \/ \E q \in InFlight : ProposeInsert(q)
    \/ \E u \in Makers, c \in CRIds, raw \in LockInputs :
          Quiet /\ SaveBegin(u, c, raw, FormA.payload, FormA.meta)
    \/ \E q \in InFlight : SaveWrite(q)
    \/ \E q \in InFlight : SaveAddContributor(q)
    \/ \E c \in CRIds, uuid \in UuidInputs, raw \in LockInputs :
          Quiet /\ SubmitBegin(c, uuid, raw)
    \/ \E q \in InFlight : SubmitWrite(q)
    \/ \E c \in CRIds, d \in {"approve", "reject"}, n \in NoteInputs :
          Quiet /\ DecideBegin("a1", c, d, n)
    \/ \E q \in InFlight : DecideWrite(q)
    \/ \E q \in InFlight : DecideWriteHeader(q)
    \/ \E u \in Makers \cup {"a1"}, c \in CRIds : Quiet /\ DiscardBegin(u, c)
    \/ \E q \in InFlight : DiscardDelete(q)
    \/ \E m \in CollaborationModes, st \in HeaderStatusInputs :
          Quiet /\ HeaderEditBegin("a1", m, st)
    \/ \E q \in InFlight : HeaderEditWrite(q)

SpecRef == Init /\ [][NextRef]_vars

\* SpecTwo: two drafts with different payloads, one request at a time, the
\* reference not edited.
NextTwo ==
    \/ \E u \in Makers, f \in PostedForms : Quiet /\ ProposeBegin(u, f.payload, f.meta)
    \/ \E q \in InFlight : ProposeInsert(q)
    \/ \E u \in Makers, c \in CRIds, raw \in LockInputs, f \in PostedForms :
          Quiet /\ SaveBegin(u, c, raw, f.payload, f.meta)
    \/ \E q \in InFlight : SaveWrite(q)
    \/ \E q \in InFlight : SaveAddContributor(q)
    \/ \E c \in CRIds, uuid \in UuidInputs, raw \in LockInputs :
          Quiet /\ SubmitBegin(c, uuid, raw)
    \/ \E q \in InFlight : SubmitWrite(q)
    \/ \E c \in CRIds, d \in {"approve", "reject"}, n \in NoteInputs :
          Quiet /\ DecideBegin("a1", c, d, n)
    \/ \E q \in InFlight : DecideWrite(q)
    \/ \E q \in InFlight : DecideWriteHeader(q)
    \/ \E u \in Makers \cup {"a1"}, c \in CRIds : Quiet /\ DiscardBegin(u, c)
    \/ \E q \in InFlight : DiscardDelete(q)

SpecTwo == Init /\ [][NextTwo]_vars

\* SpecShared: a collaborative reference seeded by load_demo with a shared
\* draft, the draft picker and the bulk delete, one request at a time.
NextShared ==
    \/ LoadDemoSharedDraft
    \/ \E u \in Makers : Quiet /\ ProposeBegin(u, FormA.payload, FormA.meta)
    \/ \E q \in InFlight : ProposeInsert(q)
    \/ \E u \in Makers, c \in CRIds, raw \in LockInputs, f \in PostedForms :
          Quiet /\ SaveBegin(u, c, raw, f.payload, f.meta)
    \/ \E q \in InFlight : SaveWrite(q)
    \/ \E q \in InFlight : SaveAddContributor(q)
    \/ \E c \in CRIds, uuid \in UuidInputs, raw \in LockInputs :
          Quiet /\ SubmitBegin(c, uuid, raw)
    \/ \E q \in InFlight : SubmitWrite(q)
    \/ \E u \in Makers \cup {"a1"}, c \in CRIds : Quiet /\ DiscardBegin(u, c)
    \/ \E u \in Makers, c \in CRIds : Quiet /\ PickerDiscardBegin(u, c)
    \/ \E u \in Makers : Quiet /\ PickerDiscardAlignedBegin(u)
    \/ \E u \in Makers, c \in CRIds : Quiet /\ draft_bulk_delete(u, c)
    \/ \E q \in InFlight : DiscardDelete(q)

SpecShared == Init /\ [][NextShared]_vars

----------------------------------------------------------------------------
(* proposed_change_detail: the diff of the baseline rows against the proposed
   rows *)

\* _is_values_row of the diff: every row that is not the header row
NotHeaderRow(r) == Lower(r.row_type) # "header"

\* the {} that stands for the missing side of a pair
NoDictRow == Row("", "", "", "", "")

\* _header_row: the first header row, {} when there is none
_header_row(rows) ==
    IF Len(SelectSeq(rows, IsHeaderRow)) = 0 THEN NoDictRow
    ELSE SelectSeq(rows, IsHeaderRow)[1]

\* the columns as they would be with only the labelled ones kept
LabelledCols(before, after) ==
    {col \in Slots :
        Strip(_header_row(after)[col]) # "" \/ Strip(_header_row(before)[col]) # ""}

\* _build_biz_cols: the columns labelled by either header row or filled in
\* any row of either side
_build_biz_cols(before, after) ==
    {col \in Slots :
        \/ Strip(_header_row(after)[col]) # "" \/ Strip(_header_row(before)[col]) # ""
        \/ \E i \in 1..Len(after) : Strip(after[i][col]) # ""
        \/ \E i \in 1..Len(before) : Strip(before[i][col]) # ""}

OP_IS_CHANGE == {"UPDATE ROW", "INSERT ROW", "RETIRE ROW", "UNRETIRE ROW"}

\* diff_rows, one record per position of the longer side
diff_rows(before, after) ==
    LET diff_cols == _build_biz_cols(before, after)
        before_vals == SelectSeq(before, NotHeaderRow)
        after_vals == SelectSeq(after, NotHeaderRow)
        max_len == IF Len(before_vals) > Len(after_vals)
                   THEN Len(before_vals) ELSE Len(after_vals)
        DiffRow(i) ==
            LET b == IF i <= Len(before_vals) THEN before_vals[i] ELSE NoDictRow
                a == IF i <= Len(after_vals) THEN after_vals[i] ELSE NoDictRow
                op == _normalize_operation(Strip(a.operation))
                changed == {col \in diff_cols : Strip(b[col]) # Strip(a[col])}
            IN [pos |-> i, operation |-> op, changed |-> changed,
                row_changed |-> (changed # {} \/ op \in OP_IS_CHANGE)]
    IN [i \in 1..max_len |-> DiffRow(i)]

IsChangedRow(d) == d.row_changed

\* view=changes: [r for r in diff_rows if r.get("row_changed")]
changes_only(rows) == SelectSeq(rows, IsChangedRow)

\* the row_changed flags of the rows shown, as text
Flags(rows) ==
    LET acc[i \in 0..Len(rows)] ==
            IF i = 0 THEN ""
            ELSE acc[i - 1] \o (IF rows[i].row_changed THEN "1" ELSE "0")
    IN acc[Len(rows)]

----------------------------------------------------------------------------
(* Calls of the pure functions (validators.py, the diff of
   proposed_change_detail, the row hash) on stored change requests *)

HeaderRowInputs ==
    {Row("header", op, "", "Code", l2) : op \in {"BUILD NEW", "REPLACE"}, l2 \in {"", "Name"}}

ValueRowInputs ==
    {Row("values", op, upd, "US", "zz") :
        op \in {"KEEP ROW", "UPDATE ROW", "RETIRE ROW", "DELETE", ""},
        upd \in {"", "US|zz", "bogus"}}
      \cup {Row("values", op, "", "US", s2) :
                op \in {"KEEP ROW", "UPDATE ROW"}, s2 \in {" zz ", "yy"}}

\* a header row followed by at most two values rows
PayloadInputs ==
    {<< h >> : h \in HeaderRowInputs}
        \cup {<< h, v >> : h \in HeaderRowInputs, v \in ValueRowInputs}
        \cup {<< h, v, w >> : h \in HeaderRowInputs, v \in ValueRowInputs, w \in ValueRowInputs}

\* the approved payloads of the reference: none yet, one without values rows,
\* one with a values row
BaselineInputs ==
    {<< >>,
     << Row("header", "BUILD NEW", "", "Code", "Name") >>,
     << Row("header", "BUILD NEW", "", "Code", "Name"),
        Row("values", "INSERT ROW", "", "US", "zz") >>,
     << Row("header", "BUILD NEW", "", "Code", ""),
        Row("values", "INSERT ROW", "", "US", "zz") >>}

\* ", ".join(errors) of the tags
Join(errs) ==
    LET acc[i \in 0..Len(errs)] ==
            IF i = 0 THEN ""
            ELSE IF i = 1 THEN errs[1]
            ELSE acc[i - 1] \o "," \o errs[i]
    IN acc[Len(errs)]

\* change request 1 is the approved baseline (or a discarded draft when the
\* reference has none), change request 2 a draft as propose_change stores it
InitStored ==
    /\ req = EmptyBag
    /\ last = "init"
    /\ \E b \in BaselineInputs, p \in PayloadInputs :
          /\ hdr = [status |-> IF b = << >> THEN "IN_REVIEW" ELSE "ACTIVE",
                    collaboration_mode |-> "SINGLE_OWNER",
                    last_approved_change |-> IF b = << >> THEN NoCR ELSE 1]
          /\ cr = [c \in CRIds |->
                     IF c = 1
                     THEN IF b = << >> THEN NoRow("DELETED")
                          ELSE [NoRow("APPROVED") EXCEPT
                                   !.lock_version = 2, !.draft_uuid = 1,
                                   !.collaboration_mode = "SINGLE_OWNER",
                                   !.payload = b, !.meta = "reason A",
                                   !.submitted_at = 1, !.decided_at = 1,
                                   !.decided_by_sid = "a1", !.decision_note = "ok",
                                   !.created_by = "m1"]
                     ELSE [NoRow("DRAFT") EXCEPT
                              !.lock_version = 1, !.draft_uuid = 2,
                              !.collaboration_mode = "SINGLE_OWNER",
                              !.payload = p, !.meta = "reason B",
                              !.created_by = "m1"]]

\* the payload_json of header.last_approved_change ("" when there is none)
LatestPayload == IF hdr.last_approved_change # NoCR
                 THEN cr[hdr.last_approved_change].payload ELSE << >>

\* validate_change_request_payload(header=..., change_request=c)
ValidatePayloadCall(c) ==
    /\ cr[c].status = "DRAFT"
    /\ last' = "validate:" \o Join(validate_change_request_payload(hdr, cr[c].payload))
    /\ UNCHANGED <<hdr, cr, req>>

\* validate_update_rowids_against_latest(header=..., change_request=c)
ValidateTargetsCall(c) ==
    /\ cr[c].status = "DRAFT"
    /\ last' = "targets:" \o Join(validate_update_rowids_against_latest(
                                     hdr, LatestPayload, cr[c].payload))
    /\ UNCHANGED <<hdr, cr, req>>

\* validate_update_rowids_against_latest_hash(header=..., change_request=c)
ValidateTargetsHashCall(c) ==
    /\ cr[c].status = "DRAFT"
    /\ last' = "targets_hash:" \o Join(validate_update_rowids_against_latest_hash(
                                          hdr, LatestPayload, cr[c].payload))
    /\ UNCHANGED <<hdr, cr, req>>

\* compute_baseline_update_ids: the hash of every values row of the baseline,
\* by the row's position in the document
compute_baseline_update_ids(p) ==
    [i \in {j \in 1..Len(p) : IsValuesRow(p[j])} |-> RowHash(p[i])]

\* the hashes the editor page of c carries as baseline_update_ids_json
UpdateIdsCall(c) ==
    /\ cr[c].status = "DRAFT"
    /\ LET ids == compute_baseline_update_ids(LatestPayload)
           listed == SelectSeq([i \in 1..Len(LatestPayload) |->
                                   IF i \in DOMAIN ids THEN ids[i] ELSE ""],
                               LAMBDA x : x # "")
       IN last' = "update_ids:" \o Join(listed)
    /\ UNCHANGED <<hdr, cr, req>>

\* GET proposed_change_detail of c with view=all or view=changes
DetailCall(c, view) ==
    /\ cr[c].status = "DRAFT"
    /\ LET rows == diff_rows(LatestPayload, cr[c].payload)
           shown == IF view = "all" THEN rows ELSE changes_only(rows)
       IN last' = "detail:" \o view \o ":" \o Flags(shown)
    /\ UNCHANGED <<hdr, cr, req>>

NextStored ==
    \/ \E c \in CRIds : UpdateIdsCall(c)
    \/ \E c \in CRIds, view \in {"all", "changes"} : DetailCall(c, view)
    \/ \E c \in CRIds : ValidatePayloadCall(c)
    \/ \E c \in CRIds : ValidateTargetsCall(c)
    \/ \E c \in CRIds : ValidateTargetsHashCall(c)

SpecStored == InitStored /\ [][NextStored]_vars

----------------------------------------------------------------------------
(* Properties *)

\* the step runs a statement of the in-flight request q
Ran(q) == CopiesIn(q, req') < CopiesIn(q, req)

Submitted == {c \in CRIds : cr[c].status = "SUBMITTED"}

\* C1: a reference whose collaboration_mode is single owner never has more
\* than one submitted change request, whatever the order of create, save,
\* submit, decide, discard and reference edit.
C1_SingleOwnerOneSubmitted ==
    hdr.collaboration_mode = "SINGLE_OWNER" => Cardinality(Submitted) <= 1

\* C2: the lock_version comparison and the increment are one step: a save or
\* a submit is accepted only where the stored lock_version is still the one
\* the request presented, so of two requests presenting the same value at
\* most one is accepted and no accepted save is overwritten.
C2_CompareAndIncrementAtomic ==
    [][\A q \in InFlight :
          (Ran(q) /\ last' \in {"save:saved", "submit:submitted"})
              => cr[q.pk].lock_version = q.presented]_vars

\* C3: a save or a submit presenting a lock_version other than the stored
\* one (smaller, larger, missing, not a number) is rejected, and the
\* rejection changes no stored field of any change request.  (The checks
\* read cr and hdr only, so they are evaluated in every state a step that
\* changes cr or hdr leaves behind; no change request exists initially.)
LockMismatchRejected ==
    \A c \in CRIds, raw \in LockInputs :
        (Exists(c) /\ ParseLock(raw) # cr[c].lock_version)
            => /\ \A u \in Makers : SaveCheck(u, cr[c], raw) # "pending"
               /\ \A uuid \in UuidInputs : SubmitCheck(cr[c], uuid, raw) # "pending"
               /\ cr[c].status = "DRAFT"
                     => SubmitCheck(cr[c], cr[c].draft_uuid, raw) = "lock_mismatch"

C3_LockMismatchLeavesRecordUnchanged ==
    [][/\ (cr' # cr \/ hdr' # hdr) => LockMismatchRejected'
       /\ last' \in {"save:lock_mismatch", "submit:lock_mismatch"}
             => UNCHANGED <<cr, hdr, req>>]_vars

\* a draft at lock_version 2, so that 1 and 3 are both wrong, has just
\* answered a submit with the lock mismatch message
C3_Witness ==
    /\ last = "submit:lock_mismatch"
    /\ \E c \in CRIds : cr[c].status = "DRAFT" /\ cr[c].lock_version = 2

\* C4: lock_version starts at 1, never decreases, and every accepted save
\* and every accepted submit raises it by exactly one (so it counts the
\* accepted saves and submits, plus one).
C4_LockVersionCountsWrites ==
    [][/\ \A c \in CRIds :
            /\ (~Exists(c) /\ Exists(c)') => cr'[c].lock_version = 1
            /\ (Exists(c) /\ Exists(c)') => cr'[c].lock_version >= cr[c].lock_version
       /\ \A q \in InFlight :
            (Ran(q) /\ last' \in {"save:saved", "submit:submitted"})
                => cr'[q.pk].lock_version = cr[q.pk].lock_version + 1]_vars

\* C5: status moves only draft -> submitted -> approved or rejected, and an
\* approved or rejected change request keeps its status, decided_by,
\* decided_at and decision_note for ever.
StatusMoves ==
    {<<"DRAFT", "SUBMITTED">>, <<"SUBMITTED", "APPROVED">>, <<"SUBMITTED", "REJECTED">>}

C5_StatusLifecycle ==
    [][\A c \in CRIds :
          (Exists(c) /\ Exists(c)')
              => /\ cr'[c].status = cr[c].status \/ <<cr[c].status, cr'[c].status>> \in StatusMoves
                 /\ cr[c].status \in {"APPROVED", "REJECTED"}
                       => /\ cr'[c].decided_by_sid = cr[c].decided_by_sid
                          /\ cr'[c].decided_at = cr[c].decided_at
                          /\ cr'[c].decision_note = cr[c].decision_note]_vars

\* C6: once a change request is submitted, approved or rejected, no step
\* changes its payload or its metadata, and no step deletes it.
C6_PayloadFrozenAfterDraft ==
    [][\A c \in CRIds :
          cr[c].status \in {"SUBMITTED", "APPROVED", "REJECTED"}
              => /\ Exists(c)'
                 /\ cr'[c].payload = cr[c].payload
                 /\ cr'[c].meta = cr[c].meta]_vars

\* C7: the step that makes a change request approved also makes it the
\* reference's last_approved_change and the reference active, so that no
\* state shows it approved while the reference still has the old baseline.
C7_ApproveIsOneStep ==
    [][\A c \in CRIds :
          (cr[c].status # "APPROVED" /\ cr'[c].status = "APPROVED")
              => /\ hdr'.last_approved_change = c
                 /\ hdr'.status = "ACTIVE"]_vars

\* C8: a draft becomes submitted only if validate_change_request_payload and
\* validate_update_rowids_against_latest both return no error for its
\* stored payload against the reference's current baseline.
C8_SubmitOnlyValidPayload ==
    [][\A c \in CRIds :
          (cr[c].status = "DRAFT" /\ cr'[c].status = "SUBMITTED")
              => /\ validate_change_request_payload(hdr, cr[c].payload) = << >>
                 /\ validate_update_rowids_against_latest(hdr, BaselinePayload, cr[c].payload)
                       = << >>]_vars

\* C9: a submit of a draft with no draft_uuid, or with another one than the
\* stored, is rejected whatever lock_version it presents, the rejection
\* changes nothing, and no step changes a stored draft_uuid.
TokenMismatchRejected ==
    \A c \in CRIds, uuid \in UuidInputs, raw \in LockInputs :
        (cr[c].status = "DRAFT" /\ uuid # cr[c].draft_uuid)
            => SubmitCheck(cr[c], uuid, raw) = "uuid_mismatch"

C9_DraftTokenRequired ==
    [][/\ cr' # cr => TokenMismatchRejected'
       /\ last' = "submit:uuid_mismatch" => UNCHANGED <<cr, hdr, req>>
       /\ \A c \in CRIds :
            (Exists(c) /\ Exists(c)') => cr'[c].draft_uuid = cr[c].draft_uuid]_vars

\* a draft that was saved once has just answered a submit with the draft
\* token message
C9_Witness ==
    /\ last = "submit:uuid_mismatch"
    /\ \E c \in CRIds : cr[c].status = "DRAFT" /\ cr[c].lock_version > 1

\* C10: a submit of an already submitted change request with the matching
\* draft_uuid answers success whatever lock_version it presents, and
\* changes nothing (submitted_at, lock_version, status, payload).
RepeatSubmitAccepted ==
    \A c \in CRIds, raw \in LockInputs :
        cr[c].status = "SUBMITTED"
            => SubmitCheck(cr[c], cr[c].draft_uuid, raw) = "already_submitted"

C10_RepeatSubmitIdempotent ==
    [][/\ cr' # cr => RepeatSubmitAccepted'
       /\ last' = "submit:already_submitted" => UNCHANGED <<cr, hdr, req>>]_vars

\* a submitted change request has just answered a repeated submit
C10_Witness ==
    /\ last = "submit:already_submitted"
    /\ \E c \in CRIds : cr[c].status = "SUBMITTED" /\ cr[c].submitted_at # NoStamp

\* C11: a draft of a retired reference becomes submitted only if its
\* override_retired_flag is set.
C11_RetiredNeedsOverride ==
    [][\A c \in CRIds :
          (cr[c].status = "DRAFT" /\ cr'[c].status = "SUBMITTED" /\ hdr.status = "RETIRED")
              => cr[c].override_retired_flag = "Y"]_vars

\* C12: while a single-owner reference has a submitted change request, a
\* create-draft request is answered with the existing request and no
\* change request row is created (requests served one at a time).
C12_NoDraftWhileSubmitted ==
    [][/\ \A c \in CRIds :
            (hdr.collaboration_mode = "SINGLE_OWNER" /\ Submitted # {})
                => ~(~Exists(c) /\ Exists(c)')
       /\ last' = "create:redirect_existing"
            => (hdr.collaboration_mode = "SINGLE_OWNER" /\ Submitted # {}
                /\ UNCHANGED <<cr, hdr, req>>)]_vars

\* a create-draft request on a single-owner reference with a submitted
\* change request has just been answered, and a second row could be made
C12_Witness ==
    /\ last = "create:redirect_existing"
    /\ hdr.collaboration_mode = "SINGLE_OWNER"
    /\ Cardinality(Submitted) = 1
    /\ NextId \in CRIds

\* C13: the step that approves a change request stamps its version with a
\* number above the version of the baseline it replaces, and no other step
\* changes the version a change request got when it was created.
C13_ApproveStampsNextVersion ==
    [][\A c \in CRIds :
          /\ (cr[c].status # "APPROVED" /\ cr'[c].status = "APPROVED")
                => /\ cr'[c].version # Null
                   /\ BaselineVersion # Null => cr'[c].version > BaselineVersion
          /\ (Exists(c) /\ Exists(c)' /\ cr'[c].status # "APPROVED")
                => cr'[c].version = cr[c].version]_vars

\* C14: when a change request becomes the reference's baseline, every
\* other draft of the reference (all of them were created against the
\* baseline it replaces) is classified stale from then on, so an edit of
\* such a draft is refused.
C14_OtherDraftsBecomeStale ==
    [][\A c, d \in CRIds :
          (/\ hdr.last_approved_change # c /\ hdr'.last_approved_change = c
           /\ d # c /\ cr[d].status = "DRAFT")
              => /\ ~Aligned(cr[d])'
                 /\ \A u \in Makers, raw \in LockInputs : SaveCheck(u, cr[d], raw)' # "pending"]_vars

\* primary keys are handed out in order, so a change request with a smaller
\* key than the baseline was created before the baseline was approved
ForkedFromOlderBaseline(c) ==
    hdr.last_approved_change # NoCR /\ c < hdr.last_approved_change

\* C15: a draft that was forked from an older baseline and is not aligned
\* to the reference's current baseline never becomes submitted.
C15_StaleDraftNotSubmitted ==
    [][\A c \in CRIds :
          (/\ cr[c].status = "DRAFT" /\ cr'[c].status = "SUBMITTED"
           /\ ForkedFromOlderBaseline(c))
              => Aligned(cr[c])]_vars

\* who may change the payload of a draft: a maker who created it, or, on a
\* collaborative reference, a maker who is one of its contributors
MayChangePayload(u, row) ==
    /\ u \in Makers
    /\ \/ row.created_by = u
       \/ hdr.collaboration_mode = "COLLABORATIVE" /\ u \in row.contributors

\* C16: a save or a CSV bulk upload changes the stored payload of a draft
\* only if the request comes from a maker who is the draft's creator or, on
\* a collaborative reference, one of its contributors.
C16_PayloadChangedByEditorsOnly ==
    [][\A q \in InFlight :
          (/\ Ran(q) /\ q.op \in {"save", "bulk"}
           /\ cr[q.pk].status = "DRAFT"
           /\ cr'[q.pk].payload # cr[q.pk].payload)
              => MayChangePayload(q.user, cr[q.pk])]_vars

\* C17: a change request is deleted only while it is a draft, and only by its
\* creator or by an actor with an elevated role; a maker who is only a
\* contributor to the draft, or unrelated to it, deletes it through no path
\* (discard endpoint, draft picker, bulk delete).
MayDelete(u, row) == row.status = "DRAFT" /\ (row.created_by = u \/ u \in Approvers)

C17_DeletedByCreatorOrElevated ==
    [][\A q \in InFlight :
         (Ran(q) /\ q.op = "discard" /\ Exists(q.pk) /\ ~Exists(q.pk)')
            => MayDelete(q.user, cr[q.pk])]_vars

\* C18: rejecting a submitted change request sets its status to REJECTED and
\* stamps its decision fields (time, note, decider); the reference's
\* last_approved_change and status and every other change request stay as
\* they were.
RejectWrites(q) ==
    /\ Ran(q) /\ q.op = "decide" /\ q.pc = "write" /\ q.decision = "reject"
    /\ cr[q.pk].status = "SUBMITTED"

C18_RejectChangesOnlyItsRequest ==
    [][\A q \in InFlight :
         RejectWrites(q)
            => /\ cr'[q.pk] = [cr[q.pk] EXCEPT !.status = "REJECTED",
                                               !.decided_at = cr'[q.pk].decided_at,
                                               !.decision_note = q.note,
                                               !.decided_by_sid = q.user]
               /\ cr'[q.pk].decided_at > cr[q.pk].decided_at
               /\ q.note # "" /\ q.user \in Approvers
               /\ hdr' = hdr
               /\ \A d \in CRIds \ {q.pk} : cr'[d] = cr[d]]_vars

\* a rejection has just been written on a reference whose baseline is another,
\* approved change request
C18_Witness ==
    /\ last = "decide:rejected"
    /\ \E c, d \in CRIds :
          /\ c # d
          /\ cr[c].status = "REJECTED" /\ cr[c].decision_note = "ok"
          /\ cr[c].decided_by_sid = "a1" /\ cr[c].decided_at # NoStamp
          /\ cr[d].status = "APPROVED" /\ hdr.last_approved_change = d
          /\ hdr.status = "ACTIVE"

\* C19: a decide request (approve or reject) whose note is empty or only
\* whitespace changes nothing: it is answered without a write, the change
\* request stays SUBMITTED with no decision fields set and the reference is
\* unchanged.
BlankNotes == {n \in NoteInputs : Strip(n) = ""}

Undecided(row) ==
    row.status = "SUBMITTED" => (row.decided_at = NoStamp /\ row.decision_note = ""
                                    /\ row.decided_by_sid = "")

C19_BlankNoteChangesNothing ==
    [][/\ last' = "decide:note_required" => UNCHANGED <<cr, hdr, req>>
       /\ \A q \in BagToSet(req') : q.op = "decide" => q.note # ""
       /\ cr' # cr =>
            \A c \in CRIds :
               /\ Undecided(cr'[c])
               /\ cr'[c].status \in {"APPROVED", "REJECTED"} => cr'[c].decision_note # ""
               /\ cr'[c].status = "SUBMITTED" =>
                     \A n \in BlankNotes : DecideCheck(cr[c], n)' = "note_required"]_vars

\* a decide request with a blank note has just been refused
C19_Witness ==
    /\ last = "decide:note_required"
    /\ \E c \in CRIds :
          /\ cr[c].status = "SUBMITTED" /\ cr[c].decided_at = NoStamp
          /\ cr[c].decision_note = "" /\ cr[c].decided_by_sid = ""

\* C20: in every reachable state, every value row in the payload of a change
\* request that is SUBMITTED (or APPROVED, the baselines) carries an operation
\* of the locked vocabulary, the rows appended by a CSV bulk upload before the
\* submit included.
ValueRowsLocked(p) ==
    \A i \in 1..Len(p) : IsValuesRow(p[i]) => p[i].operation \in ALLOWED_VALUE_OPS

C20_SubmittedRowsUseLockedOps ==
    \A c \in CRIds :
        cr[c].status \in {"SUBMITTED", "APPROVED"} => ValueRowsLocked(cr[c].payload)

\* C21: the reference's last_approved_change and its status change only as
\* part of an approve transition; no other operation (create draft, draft
\* save, submit, reject, discard, bulk upload, reference edit) changes either.
ApproveRuns == \E q \in InFlight : Ran(q) /\ q.op = "decide" /\ q.decision = "approve"

C21_ReferenceChangedOnlyByApprove ==
    [][(hdr'.last_approved_change # hdr.last_approved_change \/ hdr'.status # hdr.status)
          => ApproveRuns]_vars

\* C22: a successful save of a draft of a collaborative reference by user U
\* makes U one of the draft's contributors (a set-add: a repeated save leaves
\* the set as it is); a refused save (not permitted, not a draft, stale, lock
\* mismatch) adds nobody; a save on a single-owner reference never changes the
\* contributors.
SaveRefusals ==
    {"save:not_permitted", "save:not_draft", "save:stale", "save:lock_mismatch"}

AddsContributor(q) == Ran(q) /\ q.op = "save" /\ q.pc = "add_contrib"

C22_SaveRecordsContributor ==
    [][/\ \A c \in CRIds :
            (Exists(c) /\ Exists(c)' /\ cr'[c].contributors # cr[c].contributors)
               => \E q \in InFlight :
                     /\ AddsContributor(q) /\ q.pk = c
                     /\ hdr.collaboration_mode = "COLLABORATIVE"
       /\ \A q \in InFlight :
            (AddsContributor(q) /\ Exists(q.pk))
               => cr'[q.pk].contributors = cr[q.pk].contributors \cup {q.user}
       /\ last' = "save:saved" =>
            \E q \in InFlight :
               /\ Ran(q) /\ q.op = "save" /\ q.pc = "write"
               /\ cr'[q.pk].contributors = cr[q.pk].contributors
               /\ IF hdr.collaboration_mode = "COLLABORATIVE"
                  THEN [q EXCEPT !.pc = "add_contrib"] \in BagToSet(req')
                  ELSE req' = End(q)
       /\ last' \in SaveRefusals => UNCHANGED <<cr, hdr, req>>]_vars

\* a maker has saved a draft of a collaborative reference twice: the set
\* holds that maker, once
C22_Witness ==
    /\ last = "save:contributor_added"
    /\ hdr.collaboration_mode = "COLLABORATIVE"
    /\ \E c \in CRIds :
          /\ cr[c].status = "DRAFT" /\ cr[c].created_by = "m2"
          /\ cr[c].lock_version = 3 /\ cr[c].contributors = {"m2"}

\* C23: for a payload with exactly one header row, validated against a
\* reference without last_approved_change, whose header row's operation is not
\* a build-new marker, validate_change_request_payload returns exactly one
\* error, the build-new error, whatever the value rows hold.
BuildNewMarkers == {"BUILD NEW", "BUILD_NEW", "NEW", "CREATE"}

NeedsBuildNew(p) ==
    /\ hdr.last_approved_change = NoCR
    /\ Len(SelectSeq(p, IsHeaderRow)) = 1
    /\ Upper(Strip(SelectSeq(p, IsHeaderRow)[1].operation)) \notin BuildNewMarkers

C23_BuildNewIsTheOnlyError ==
    \A c \in CRIds :
        (cr[c].status = "DRAFT" /\ NeedsBuildNew(cr[c].payload))
            => validate_change_request_payload(hdr, cr[c].payload) = << "build_new" >>

\* C24: with an approved baseline, the update-target validator returns one
\* error for each proposed value row whose operation is UPDATE ROW, RETIRE ROW
\* or UNRETIRE ROW and whose update_rowid is empty or is not the row hash of a
\* values row of the baseline (also when the baseline has no values rows), and
\* no error for any other row; without a baseline it returns no errors.
TargetingOps == {"UPDATE ROW", "RETIRE ROW", "UNRETIRE ROW"}

BaselineDigests == {RowHash(r) : r \in {x \in Range(LatestPayload) : IsValuesRow(x)}}

BadTarget(r) ==
    /\ Upper(Strip(r.operation)) \in TargetingOps
    /\ Strip(r.update_rowid) = "" \/ Strip(r.update_rowid) \notin BaselineDigests

ExpectedTargetErrors(p) ==
    LET value_rows == SelectSeq(p, IsValuesRow)
    IN IF hdr.last_approved_change = NoCR THEN 0
       ELSE Cardinality({i \in 1..Len(value_rows) : BadTarget(value_rows[i])})

C24_TargetErrorsExactlyForBadTargets ==
    \A c \in CRIds :
        cr[c].status = "DRAFT" =>
            /\ Len(validate_update_rowids_against_latest(hdr, LatestPayload, cr[c].payload))
                  = ExpectedTargetErrors(cr[c].payload)
            /\ Len(validate_update_rowids_against_latest_hash(hdr, LatestPayload, cr[c].payload))
                  = ExpectedTargetErrors(cr[c].payload)

\* C25: in the diff of the baseline rows against the proposed rows the values
\* rows are paired by position, and a pair's row_changed is true exactly when
\* the trimmed before and after values differ in some column or the proposed
\* row's operation (as the diff reads it, through _normalize_operation) is one
\* of UPDATE ROW, INSERT ROW, RETIRE ROW, UNRETIRE ROW: identical content with
\* UPDATE ROW gives true, with KEEP ROW false.  The "changed rows only" view is
\* the "all rows" output filtered on row_changed, in the same order.
PairAt(rows, i) ==
    IF i <= Len(SelectSeq(rows, NotHeaderRow)) THEN SelectSeq(rows, NotHeaderRow)[i]
    ELSE NoDictRow

ContentDiffers(b, a) == \E col \in Slots : Strip(b[col]) # Strip(a[col])

DiffIsRight(before, after) ==
    LET all == diff_rows(before, after)
        only == changes_only(all)
        nb == Len(SelectSeq(before, NotHeaderRow))
        na == Len(SelectSeq(after, NotHeaderRow))
    IN /\ Len(all) = IF nb > na THEN nb ELSE na
       /\ \A i \in 1..Len(all) :
             LET b == PairAt(before, i)
                 a == PairAt(after, i)
             IN /\ all[i].row_changed
                     <=> (ContentDiffers(b, a)
                            \/ _normalize_operation(a.operation) \in OP_IS_CHANGE)
                /\ (~ContentDiffers(b, a) /\ a.operation = "UPDATE ROW") => all[i].row_changed
                /\ (~ContentDiffers(b, a) /\ a.operation = "KEEP ROW") => ~all[i].row_changed
       /\ {only[k].pos : k \in 1..Len(only)} = {i \in 1..Len(all) : all[i].row_changed}
       /\ \A k \in 1..Len(only) :
             /\ only[k] = all[only[k].pos]
             /\ k > 1 => only[k - 1].pos < only[k].pos

IsInsertRow(r) ==
    r.row_type = "values" /\ r.operation = "INSERT ROW" /\ r.update_rowid = ""

AppendsInsertRows(old, new) ==
    /\ Len(new) >= Len(old)
    /\ SubSeq(new, 1, Len(old)) = old
    /\ \A i \in (Len(old) + 1)..Len(new) : IsInsertRow(new[i])

C26_UploadAppendsInsertRows ==
    [][/\ last' = "bulk:blocked" => UNCHANGED <<cr, req>>
       /\ \A q \in InFlight :
            (Ran(q) /\ q.op = "bulk" /\ q.pc = "write" /\ Exists(q.pk))
               => AppendsInsertRows(cr[q.pk].payload, cr'[q.pk].payload)]_vars

\* C27: two rows whose trimmed values agree in every slot have the same row
\* hash, whatever their operation, row_type or update_rowid; and the hashes
\* the editor offers as update ids for the baseline rows are exactly the
\* update_rowid values the update-target validator accepts.
SameBusinessValues(r1, r2) == \A col \in Slots : Strip(r1[col]) = Strip(r2[col])

UpdateRowidInputs == {"US|zz", "bogus", "US|yy"}

AcceptsTarget(upd) ==
    validate_update_rowids_against_latest(
        hdr, LatestPayload, << Row("values", "UPDATE ROW", upd, "US", "zz") >>) = << >>

OfferedIds == {compute_baseline_update_ids(LatestPayload)[i] :
                  i \in DOMAIN compute_baseline_update_ids(LatestPayload)}

C27_HashStableAndIdsAccepted ==
    /\ \A c \in CRIds :
          \A r1 \in Range(cr[c].payload), r2 \in Range(cr[c].payload) \cup Range(LatestPayload) :
              SameBusinessValues(r1, r2) => RowHash(r1) = RowHash(r2)
    /\ hdr.last_approved_change # NoCR =>
          \A upd \in UpdateRowidInputs : AcceptsTarget(upd) <=> upd \in OfferedIds

\* C28: whenever the stored payload of a change request changes, its
\* lock_version increases in the same operation, and the operation presented
\* the lock_version that was stored (draft save and CSV bulk upload alike); so
\* a submit that presents lock_version L finds the payload of version L.
C28_PayloadChangeBumpsLock ==
    [][\A c \in CRIds :
         (Exists(c) /\ Exists(c)' /\ cr'[c].payload # cr[c].payload)
            => /\ cr'[c].lock_version > cr[c].lock_version
               /\ \E q \in InFlight :
                     Ran(q) /\ q.pk = c /\ q.presented = cr[c].lock_version]_vars

\* C29: in every reachable state the reference's last_approved_change is null
\* or a change request (of that reference) whose status is APPROVED, whatever
\* the interleaving, an approve and a reject of the same submitted change
\* request by two approvers included.
C29_BaselineIsApproved ==
    hdr.last_approved_change # NoCR
        => (Exists(hdr.last_approved_change)
              /\ cr[hdr.last_approved_change].status = "APPROVED")

\* C30: a draft created against the reference's current baseline and then
\* saved with a payload that differs from that baseline stays editable by its
\* creator (its edit requests are not refused as stale) for as long as no
\* change request of the reference is approved; a reference without an
\* approved baseline is included.
NothingApproved ==
    hdr.last_approved_change = NoCR /\ \A d \in CRIds : cr[d].status # "APPROVED"

SavedDraft(c) == cr[c].status = "DRAFT" /\ cr[c].lock_version > 1

C30_SavedDraftStaysEditable ==
    \A c \in CRIds :
        (SavedDraft(c) /\ NothingApproved)
            => \A raw \in LockInputs : SaveCheck(cr[c].created_by, cr[c], raw) # "stale"

====
